---- MODULE Spec2Model ----
(***************************************************************************)
(* mosrs-setup (src/mosrs/setup.py): the console script that checks rose,  *)
(* starts the GPG agent, asks whether the user has a MOSRS account,        *)
(* verifies the credentials and patches ~/.bashrc with a GPG agent script. *)
(*                                                                         *)
(* File contents are sequences of tokens.  A token is a piece of text with *)
(* no newline in it, or the newline itself:                                *)
(*   NL   "\n"                                                             *)
(*   AN   the boilerplate text  'if in_interactive_shell; then'            *)
(*   SN   the text grep looks for, 'mosrs-setup gpg_agent_script'          *)
(*   "x"  any other text of the user's file                                *)
(*   "#", "b", "e", "f", "g"  the other pieces of gpg_agent_script         *)
(* Replies typed at the prompt are sequences of one-character strings.     *)
(***************************************************************************)
EXTENDS Integers, Sequences, FiniteSets, TLC

\* ------------------------------------------------------------------ bounds
MaxLen     == 3   \* longest startup file (in tokens) the first run starts from
MaxRuns    == 2   \* runs of main in one behaviour
MaxPrompts == 2   \* replies typed at the account prompt in one run

\* ------------------------------------------------------------------ tokens
NL == "nl"
AN == "if in_interactive_shell; then"
SN == "mosrs-setup gpg_agent_script"
Absent == << "no such file" >>   \* the path does not exist (no token is written so)
None   == << "None" >>           \* python's None (no character is written so)

FileTokens == {NL, AN, SN, "x"}

\* Variant: the script's comment lines are worded otherwise than the text
\* grep looks for.
gpg_agent_script_Reworded ==
    << NL,
       "#", "x", "b", NL,
       "f", NL,
       AN, NL,
       "g", NL,
       "#", "x", "e", NL,
       NL >>

\* The value of gpg_agent_script after dedent: a leading blank line, the
\* DO NOT EDIT line, the function definitions, the boilerplate-looking
\* 'if in_interactive_shell; then' block, the END line and a blank line.
gpg_agent_script ==
    << NL,
       "#", SN, "b", NL,
       "f", NL,
       AN, NL,
       "g", NL,
       "#", SN, "e", NL,
       NL >>

boilerplate == AN

\* ------------------------------------------------------------ text helpers
RECURSIVE SeqsUpTo(_, _)
SeqsUpTo(S, n) ==
    IF n = 0 THEN { <<>> }
    ELSE LET shorter == SeqsUpTo(S, n - 1)
         IN  shorter \cup { Append(s, t) : s \in { u \in shorter : Len(u) = n - 1 }, t \in S }

Range(s) == { s[i] : i \in DOMAIN s }

\* The lines of a text, as grep reads them: split at every newline, a last
\* line without a newline counts, an empty text has no line.
RECURSIVE Lines(_)
Lines(text) ==
    IF text = <<>> THEN <<>>
    ELSE LET nls == { i \in DOMAIN text : text[i] = NL }
         IN  IF nls = {} THEN << text >>
             ELSE LET k == CHOOSE i \in nls : \A j \in nls : i <= j
                  IN  << SubSeq(text, 1, k - 1) >> \o Lines(SubSeq(text, k + 1, Len(text)))

\* grep PATTERN file; returncode 0 when some line contains the pattern.
Grep(pattern, text) ==
    IF \E i \in DOMAIN Lines(text) : pattern \in Range(Lines(text)[i]) THEN 0 ELSE 1

\* str.find: the 0-based index of the first occurrence, -1 when there is none.
Find(text, pattern) ==
    LET hits == { i \in DOMAIN text : text[i] = pattern }
    IN  IF hits = {} THEN -1
        ELSE (CHOOSE i \in hits : \A j \in hits : i <= j) - 1

\* python slices text[:i] and text[i:], negative i counting from the end.
PyIndex(text, i) ==
    IF i < 0 THEN (IF Len(text) + i < 0 THEN 0 ELSE Len(text) + i)
    ELSE IF i > Len(text) THEN Len(text) ELSE i
SliceTo(text, i)   == SubSeq(text, 1, PyIndex(text, i))
SliceFrom(text, i) == SubSeq(text, PyIndex(text, i) + 1, Len(text))

\* What a write of `data` can leave behind when it fails part-way: any proper
\* prefix, cut between two tokens or inside one (the cut token is then some
\* other text "x").
PartialWrites(data) ==
    { SubSeq(data, 1, k) : k \in 0 .. Len(data) - 1 }
    \cup { Append(SubSeq(data, 1, k), "x") :
             k \in { j \in 0 .. Len(data) - 1 : data[j + 1] # NL } }

\* ----------------------------------------------------------- prompt helpers
LowerChar(c) ==
    CASE c = "Y" -> "y" [] c = "E" -> "e" [] c = "S" -> "s"
      [] c = "N" -> "n" [] c = "O" -> "o" [] OTHER -> c
\* Variant: the reply is not lowered.
Lower_Missing(s) == s

Lower(s) == [ i \in DOMAIN s |-> LowerChar(s[i]) ]

RECURSIVE LStrip(_)
LStrip(s) == IF s # <<>> /\ Head(s) = " " THEN LStrip(Tail(s)) ELSE s
RECURSIVE RStrip(_)
RStrip(s) == IF s # <<>> /\ s[Len(s)] = " " THEN RStrip(SubSeq(s, 1, Len(s) - 1)) ELSE s
Strip(s) == RStrip(LStrip(s))

StartsWith(s, c) == s # <<>> /\ Head(s) = c

\* What the user may type at the prompt.
Replies ==
    { <<"Y">>, <<"y","e","s">>, <<"n">>, <<"N","o">>, <<"N","O">>, <<>>,
      <<" ","n","o"," ">>, <<" ">>, <<"m","a","y","b","e">>, <<"y","e","p">> }

YES == <<"y","e","s">>
Accepted == { <<"y","e","s">>, <<"n","o">>, <<"y">>, <<"n">> }

\* prompt_or_default(prompt, default) for a typed reply
prompt_or_default(typedReply, default) ==
    LET response == Strip(typedReply)
    IN  IF response = <<>> THEN default ELSE response

\* ---------------------------------------------------------------- messages
MsgBlank           == "print()"
MsgIntro           == "This script will set up your account"
MsgAccessdev       == "warning: not intended to run on accessdev"
MsgGPGError        == "warning: GPGError in setup_mosrs_account"
MsgGPGArg          == "info: GPGError argument"
MsgAuthFailed      == "warning: Authentication check and update failed"
MsgCheckCreds      == "todo: Please check your credentials"
MsgRequestAccount  == "todo: Please send a request for a MOSRS account"
MsgNoStartup       == "warning: Startup script does not exist"
MsgHelpdesk        == "todo: Please contact the helpdesk"
MsgRelogin         == "todo: GPG Agent has been added, log out then back in"
MsgRunAgain        == "todo: Once this has been done please run this setup script again"
MsgSuccess         == "info: You are now able to use Rose"
MsgSupport         == "info: You can ask for help by emailing help@nci.org.au"

\* -------------------------------------------------------------------- state
VARIABLES
    startup,        \* content of ~/.bashrc, or Absent
    backup,         \* content of ~/.bashrc.old, or Absent
    pc,             \* where the process is
    out,            \* what this run has printed, in order
    calls,          \* the collaborators this run has called, with their results
    typed,          \* the last reply typed at the account prompt
    mosrs_request,  \* setup_mosrs_account's local
    prompts,        \* number of times setup_mosrs_account has prompted
    exc,            \* what left main's try body: "none" or an exception
    old,            \* gpg_startup's local
    new,            \* gpg_startup's local
    orig_startup,   \* startup as it was when this run began
    orig_backup,    \* backup as it was when this run began
    runs,           \* runs of main begun so far
    prev_patched,   \* the run before this one completed a real patch
    \* access.main (src/mosrs/access.py), the credential-caching script
    acc_pc,         \* where access.main is
    passwd,         \* access.main's local
    cache,          \* the agent's cache: the passphrase held under each key
    acc_calls,      \* what this run of access.main has called, with results
    acc_runs        \* runs of access.main begun so far

setup  == << startup, backup, pc, out, calls, typed, mosrs_request, prompts, exc,
             old, new, orig_startup, orig_backup, runs, prev_patched >>
access == << acc_pc, passwd, cache, acc_calls, acc_runs >>
vars   == << setup, access >>

files  == << startup, backup >>
locals == << typed, mosrs_request, prompts, old, new >>
ghost  == << orig_startup, orig_backup, runs, prev_patched >>

Exited == { "idle", "returned", "raised", "killed" }

\* ------------------------------------------------------------- access.main
realm      == "<https://access-svn.nci.org.au:443> AccessCollab"
nemo_realm == "<https://access-svn.nci.org.au:443> nemo"

\* md5(text).hexdigest() of the texts access.main hashes.
md5hex(text) ==
    CASE text = realm      -> "0384c76bfdca059bc9428ca8eb64a012"
      [] text = nemo_realm -> "07a8d683077d2a8d2003588884c1a0a3"

key == md5hex(realm)

\* Variant: the second preset reuses the first realm.
nemo_key_Copied == md5hex(realm)

nemo_key == md5hex(nemo_realm)

\* What the user may type at getpass.
Passwords == { <<>>, << "p" >>, << "q" >> }

\* access.main is not running and the agent holds nothing.
AccessIdle ==
    /\ acc_pc = "idle"
    /\ passwd = None
    /\ cache = [ k \in { key, nemo_key } |-> None ]
    /\ acc_calls = <<>>
    /\ acc_runs = 0

Init ==
    /\ startup \in { Absent } \cup SeqsUpTo(FileTokens, MaxLen)
    /\ backup \in { Absent, << "x" >> }
    /\ pc = "idle"
    /\ out = <<>>
    /\ calls = <<>>
    /\ typed = None
    /\ mosrs_request = None
    /\ prompts = 0
    /\ exc = "none"
    /\ old = None
    /\ new = None
    /\ orig_startup = startup
    /\ orig_backup = backup
    /\ runs = 0
    /\ prev_patched = FALSE
    /\ AccessIdle

\* ------------------------------------------------------- main's try statement
\* Variant: the except SetupError clause prints nothing.
Clauses_Silent(e, o) == IF e = "none" THEN Append(o, MsgSuccess) ELSE o

\* Variant: the success message is printed after the try statement instead of
\* in its else clause.
Clauses_ElseAlways(e, o) ==
    Append(IF e = "SetupError" THEN Append(o, MsgRunAgain) ELSE o, MsgSuccess)

\* Variant: a GPGError is handled like a SetupError.
Clauses_GpgAsSetupError(e, o) ==
    IF e \in { "SetupError", "GPGError" } THEN Append(o, MsgRunAgain)
    ELSE IF e = "none" THEN Append(o, MsgSuccess)
    ELSE o

\* What main's except SetupError / else clauses print for what left the try
\* body.  A GPGError is caught by the inner try, which returns; anything else
\* propagates.
Clauses(e, o) ==
    IF e = "SetupError" THEN Append(o, MsgRunAgain)
    ELSE IF e = "none" THEN Append(o, MsgSuccess)
    ELSE o

\* Variant: no finally clause.
Finally_Missing(o) == o

\* The finally clause.
Finally(o) == Append(o, MsgSupport)

TryEnd(e, o) == Finally(Clauses(e, o))

\* The try body is left with `e` after printing `printed`.
Leave(e, printed) ==
    /\ exc' = e
    /\ out' = TryEnd(e, out \o printed)
    /\ pc' = IF e \in { "none", "SetupError", "GPGError" } THEN "returned" ELSE "raised"

\* ---------------------------------------------------------------------- main
\* main up to the try statement.
HostCheck(dev, o) ==
    IF dev THEN [ out |-> o \o << MsgBlank, MsgAccessdev >>, pc |-> "returned" ]
    ELSE [ out |-> o \o << MsgBlank, MsgIntro >>, pc |-> "check_rose" ]

Main ==
    /\ pc \in Exited
    /\ runs < MaxRuns
    /\ \E dev \in BOOLEAN :
         /\ out' = HostCheck(dev, <<>>).out
         /\ pc' = HostCheck(dev, <<>>).pc
         /\ calls' = << << "on_accessdev", IF dev THEN "True" ELSE "False" >> >>
    /\ runs' = runs + 1
    /\ prev_patched' = (pc = "returned" /\ exc = "SetupError" /\ startup # orig_startup)
    /\ orig_startup' = startup
    /\ orig_backup' = backup
    /\ typed' = None /\ mosrs_request' = None /\ prompts' = 0
    /\ old' = None /\ new' = None
    /\ exc' = "none"
    /\ UNCHANGED files
    /\ UNCHANGED access

\* Variant: the AuthError is swallowed.
check_rose_Swallowed(r) == "none"

\* setup.check_rose: auth.AuthError becomes SetupError.
check_rose(r) == IF r = "AuthError" THEN "SetupError" ELSE "none"

\* Variant: a failed tool check is tried again.
CheckRose_Retry ==
    /\ pc = "check_rose"
    /\ \E r \in { "ok", "AuthError" } :
         /\ calls' = Append(calls, << "auth.check_rose", r >>)
         /\ pc' = IF check_rose(r) = "none" THEN "start_gpg_agent" ELSE "check_rose"
    /\ UNCHANGED << out, exc, files, locals, ghost >>
    /\ UNCHANGED access

CheckRose ==
    /\ pc = "check_rose"
    /\ \E r \in { "ok", "AuthError" } :
         /\ calls' = Append(calls, << "auth.check_rose", r >>)
         /\ IF check_rose(r) = "none"
            THEN pc' = "start_gpg_agent" /\ UNCHANGED << out, exc >>
            ELSE Leave(check_rose(r), <<>>)
    /\ UNCHANGED << files, locals, ghost >>
    /\ UNCHANGED access

\* setup_mosrs_account, the try around gpg.start_gpg_agent: the warning, one
\* info per argument of the exception, and the exception is raised again.
StartAgent ==
    /\ pc = "start_gpg_agent"
    /\ \E r \in { "ok", "GPGError" }, nargs \in 0 .. 1 :
         /\ calls' = Append(calls, << "gpg.start_gpg_agent", r >>)
         /\ IF r = "ok"
            THEN nargs = 0 /\ pc' = "prompt" /\ UNCHANGED << out, exc >>
            ELSE Leave("GPGError", << MsgGPGError >> \o [ i \in 1 .. nargs |-> MsgGPGArg ])
    /\ UNCHANGED << files, locals, ghost >>
    /\ UNCHANGED access

\* One pass of the while loop.
Prompt ==
    /\ pc = "prompt"
    /\ prompts < MaxPrompts
    /\ \E t \in Replies :
         /\ typed' = t
         /\ mosrs_request' = Lower(prompt_or_default(t, YES))
    /\ prompts' = prompts + 1
    /\ pc' = IF mosrs_request' \in Accepted THEN "account" ELSE "prompt"
    /\ UNCHANGED << files, out, calls, exc, old, new, ghost >>
    /\ UNCHANGED access

\* Variant: everything but 'no' takes the yes branch.
TakesYesBranch_NotNo(request) == request # << "n", "o" >>

TakesYesBranch(request) == StartsWith(request, "y")

\* Variant: the AuthError is swallowed.
check_or_update_Swallowed(r) == "none"

\* What setup_mosrs_account raises for the result of auth.check_or_update.
check_or_update(r) == IF r = "AuthError" THEN "SetupError" ELSE "none"

\* The if statement after the loop.  When setup_mosrs_account returns to main
\* its locals are gone; while its SetupError propagates they are still held.
\* What was typed last stays on the terminal until the next run.
Account ==
    /\ pc = "account"
    /\ IF TakesYesBranch(mosrs_request)
       THEN \E r \in { "ok", "AuthError" } :
              /\ calls' = Append(calls, << "auth.check_or_update", r >>)
              /\ IF check_or_update(r) = "none"
                 THEN /\ pc' = "gpg_startup"
                      /\ mosrs_request' = None /\ prompts' = 0
                      /\ UNCHANGED << out, exc >>
                 ELSE /\ Leave(check_or_update(r), << MsgAuthFailed, MsgCheckCreds >>)
                      /\ UNCHANGED << mosrs_request, prompts >>
       ELSE /\ Leave("SetupError", << MsgRequestAccount >>)
            /\ UNCHANGED << calls, mosrs_request, prompts >>
    /\ UNCHANGED << files, typed, old, new, ghost >>
    /\ UNCHANGED access

\* --------------------------------------------------------------- gpg_startup
\* The managed block: from the DO NOT EDIT line to the END line.
ManagedBlock == SubSeq(gpg_agent_script, 2, Len(gpg_agent_script) - 2)

\* text holds the whole managed block.
ContainsBlock(text) ==
    LET block == ManagedBlock
    IN  /\ Len(text) >= Len(block)
        /\ \E k \in 1 .. Len(text) - Len(block) + 1 :
              SubSeq(text, k, k + Len(block) - 1) = block

\* Variant: only a whole managed block counts as already referenced.
AlreadyReferenced_WholeBlock(text) == ContainsBlock(text)

\* Variant: the return code test the wrong way round.
AlreadyReferenced_Inverted(text) == Grep(SN, text) # 0

\* grep 'mosrs-setup gpg_agent_script' startup_path returned 0
AlreadyReferenced(text) == Grep(SN, text) = 0

\* grep boilerplate startup_path returned 0
BoilerplateFound(text) == Grep(boilerplate, text) = 0

\* new = old[:insert_here] + gpg_agent_script + old[insert_here:]
Inserted(oldText) ==
    LET insert_here == Find(oldText, boilerplate)
    IN  SliceTo(oldText, insert_here) \o gpg_agent_script \o SliceFrom(oldText, insert_here)

\* Variant: the file is opened with 'w' instead of 'a'.
Appended_Overwritten(text) == gpg_agent_script

\* open(startup_path, 'a').write(gpg_agent_script)
Appended(text) == text \o gpg_agent_script

\* rename(startup_path, old_path): what is at the two paths afterwards
Renamed(startupText, backupText) == [ startup |-> Absent, backup |-> startupText ]

\* Variant: the copy is not made.
Copied_Nothing(startupText, backupText) == [ startup |-> startupText, backup |-> backupText ]

\* copy2(startup_path, old_path) when it succeeds
Copied(startupText, backupText) == [ startup |-> startupText, backup |-> startupText ]

\* The call, and the path.exists test.
GS_Exists ==
    /\ pc = "gpg_startup"
    /\ calls' = Append(calls, << "gpg_startup", "called" >>)
    /\ IF startup = Absent
       THEN Leave("SetupError", << MsgNoStartup, MsgHelpdesk >>)
       ELSE pc' = "grep_gpg_agent_script" /\ UNCHANGED << out, exc >>
    /\ UNCHANGED << files, locals, ghost >>
    /\ UNCHANGED access

\* Already referenced: gpg_startup returns, and main's try body ends.
GS_GrepSentinel ==
    /\ pc = "grep_gpg_agent_script"
    /\ IF AlreadyReferenced(startup)
       THEN Leave("none", <<>>)
       ELSE pc' = "grep_boilerplate" /\ UNCHANGED << out, exc >>
    /\ UNCHANGED << files, calls, locals, ghost >>
    /\ UNCHANGED access

GS_GrepBoilerplate ==
    /\ pc = "grep_boilerplate"
    /\ pc' = IF BoilerplateFound(startup) THEN "rename" ELSE "copy2"
    /\ UNCHANGED << files, out, calls, exc, locals, ghost >>
    /\ UNCHANGED access

GS_Rename ==
    /\ pc = "rename"
    /\ \/ /\ startup' = Renamed(startup, backup).startup
          /\ backup' = Renamed(startup, backup).backup
          /\ pc' = "read_old"
          /\ UNCHANGED << out, exc >>
       \/ /\ Leave("OSError", <<>>)
          /\ UNCHANGED files
    /\ UNCHANGED << calls, locals, ghost >>
    /\ UNCHANGED access

\* open(old_path, 'r'), read, find and the concatenation.
GS_ReadOld ==
    /\ pc = "read_old"
    /\ \/ /\ old' = backup
          /\ new' = Inserted(backup)
          /\ pc' = "open_w"
          /\ UNCHANGED << out, exc >>
       \/ /\ Leave("IOError", <<>>)
          /\ UNCHANGED << old, new >>
    /\ UNCHANGED << files, calls, typed, mosrs_request, prompts, ghost >>
    /\ UNCHANGED access

\* open(startup_path, 'w') creates the file empty.
GS_OpenW ==
    /\ pc = "open_w"
    /\ \/ /\ startup' = <<>>
          /\ pc' = "write"
          /\ UNCHANGED << out, exc >>
       \/ /\ Leave("IOError", <<>>)
          /\ UNCHANGED startup
    /\ UNCHANGED << backup, calls, locals, ghost >>
    /\ UNCHANGED access

\* Variant: the raise at the end of gpg_startup is left out.
PatchDone_NoRaise == Leave("none", << MsgRelogin >>)

\* The todo and the raise at the end of gpg_startup.
PatchDone == Leave("SetupError", << MsgRelogin >>)

\* startup_file.write(new) and the close; a failed write leaves a prefix.
GS_Write ==
    /\ pc = "write"
    /\ \/ /\ startup' = new
          /\ PatchDone
       \/ /\ startup' \in PartialWrites(new)
          /\ Leave("IOError", <<>>)
    /\ UNCHANGED << backup, calls, locals, ghost >>
    /\ UNCHANGED access

\* copy2: a failure leaves the backup as it was, partly written, or written
\* in full without its metadata.
GS_Copy2 ==
    /\ pc = "copy2"
    /\ \/ /\ backup' = Copied(startup, backup).backup
          /\ startup' = Copied(startup, backup).startup
          /\ pc' = "open_a"
          /\ UNCHANGED << out, exc >>
       \/ /\ backup' \in { backup, startup } \cup PartialWrites(startup)
          /\ Leave("IOError", <<>>)
          /\ UNCHANGED startup
    /\ UNCHANGED << calls, locals, ghost >>
    /\ UNCHANGED access

GS_OpenA ==
    /\ pc = "open_a"
    /\ \/ pc' = "append" /\ UNCHANGED << out, exc >>
       \/ Leave("IOError", <<>>)
    /\ UNCHANGED << files, calls, locals, ghost >>
    /\ UNCHANGED access

GS_Append ==
    /\ pc = "append"
    /\ \/ /\ startup' = Appended(startup)
          /\ PatchDone
       \/ /\ startup' \in { startup \o p : p \in PartialWrites(gpg_agent_script) }
          /\ Leave("IOError", <<>>)
    /\ UNCHANGED << backup, calls, locals, ghost >>
    /\ UNCHANGED access

\* The process is interrupted or killed between two steps.
Kill ==
    /\ pc \notin Exited
    /\ pc' = "killed"
    /\ UNCHANGED << files, out, calls, exc, locals, ghost >>
    /\ UNCHANGED access

Next ==
    \/ Main
    \/ CheckRose
    \/ StartAgent
    \/ Prompt
    \/ Account
    \/ GS_Exists
    \/ GS_GrepSentinel
    \/ GS_GrepBoilerplate
    \/ GS_Rename
    \/ GS_ReadOld
    \/ GS_OpenW
    \/ GS_Write
    \/ GS_Copy2
    \/ GS_OpenA
    \/ GS_Append
    \/ Kill

Spec == Init /\ [][Next]_vars

\* =================================================================== claims
\* ------------------------------------------------- access.main, the actions
AccessCall(op, k, p, r) == [ op |-> op, key |-> k, passphrase |-> p, result |-> r ]

\* gpg.preset_passphrase(k, p) accepted: the agent holds p under k.
Preset(agentCache, k, p) == [ agentCache EXCEPT ![k] = p ]

\* access.main is started (again).
AccessMain ==
    /\ acc_pc \in Exited
    /\ acc_runs < MaxRuns
    /\ acc_runs' = acc_runs + 1
    /\ acc_pc' = "getpass"
    /\ passwd' = None
    /\ acc_calls' = <<>>
    /\ UNCHANGED << cache, setup >>

\* passwd = getpass(...); end of input raises EOFError.
AccessGetpass ==
    /\ acc_pc = "getpass"
    /\ \/ \E p \in Passwords :
            /\ passwd' = p
            /\ acc_calls' = Append(acc_calls, AccessCall("getpass", "-", p, "ok"))
            /\ acc_pc' = "preset"
       \/ /\ acc_calls' = Append(acc_calls, AccessCall("getpass", "-", None, "EOFError"))
          /\ acc_pc' = "raised"
          /\ UNCHANGED passwd
    /\ UNCHANGED << cache, acc_runs, setup >>

\* gpg.preset_passphrase(key, passwd); a GPGError propagates out of main.
AccessPreset ==
    /\ acc_pc = "preset"
    /\ \E r \in { "ok", "GPGError" } :
         /\ acc_calls' = Append(acc_calls, AccessCall("gpg.preset_passphrase", key, passwd, r))
         /\ IF r = "ok"
            THEN cache' = Preset(cache, key, passwd) /\ acc_pc' = "preset_nemo"
            ELSE UNCHANGED cache /\ acc_pc' = "raised"
    /\ UNCHANGED << passwd, acc_runs, setup >>

\* gpg.preset_passphrase(nemo_key, passwd)
AccessPresetNemo ==
    /\ acc_pc = "preset_nemo"
    /\ \E r \in { "ok", "GPGError" } :
         /\ acc_calls' = Append(acc_calls, AccessCall("gpg.preset_passphrase", nemo_key, passwd, r))
         /\ IF r = "ok"
            THEN cache' = Preset(cache, nemo_key, passwd) /\ acc_pc' = "returned"
            ELSE UNCHANGED cache /\ acc_pc' = "raised"
    /\ UNCHANGED << passwd, acc_runs, setup >>

\* The process is interrupted or killed between two steps.
AccessKill ==
    /\ acc_pc \notin Exited
    /\ acc_pc' = "killed"
    /\ UNCHANGED << passwd, cache, acc_calls, acc_runs, setup >>

\* access.main on its own: mosrs-setup is not running, and the agent may hold
\* passphrases from earlier in the day.
InitAccess ==
    /\ startup = Absent
    /\ backup = Absent
    /\ pc = "idle"
    /\ out = <<>>
    /\ calls = <<>>
    /\ typed = None
    /\ mosrs_request = None
    /\ prompts = 0
    /\ exc = "none"
    /\ old = None
    /\ new = None
    /\ orig_startup = startup
    /\ orig_backup = backup
    /\ runs = 0
    /\ prev_patched = FALSE
    /\ acc_pc = "idle"
    /\ passwd = None
    /\ cache \in [ { key, nemo_key } -> { None } \cup Passwords ]
    /\ acc_calls = <<>>
    /\ acc_runs = 0

NextAccess ==
    \/ AccessMain
    \/ AccessGetpass
    \/ AccessPreset
    \/ AccessPresetNemo
    \/ AccessKill

SpecAccess == InitAccess /\ [][NextAccess]_vars

\* =================================================================== claims
Called(op) == \E i \in DOMAIN calls : calls[i][1] = op
CalledWith(op, r) == \E i \in DOMAIN calls : calls[i] = << op, r >>
Printed(m) == m \in Range(out)
Count(m, o) == Cardinality({ i \in DOMAIN o : o[i] = m })

FilesUntouched == startup = orig_startup /\ backup = orig_backup

\* The terminal states of a run, read off what left main's try statement.
NeedsAction == pc = "returned" /\ exc \in { "SetupError", "GPGError" }
OnAccessdev == CalledWith("on_accessdev", "True")

\* n is o with the whole of gpg_agent_script put in at some place.
IsCompletePatch(o, n) ==
    \E k \in 0 .. Len(o) :
        n = SubSeq(o, 1, k) \o gpg_agent_script \o SubSeq(o, k + 1, Len(o))

\* A real patch ran to its end in this run.
PatchCompleted == pc = "returned" /\ Called("gpg_startup") /\ Printed(MsgRelogin)

\* The steps of gpg_startup that come after the backup has been taken.
AfterBackup == { "read_old", "open_w", "write", "open_a", "append" }

\* C1: whenever the startup file existed when the run began, the startup path
\* holds either the complete original or the complete patched content, in
\* every state during and after a patch.
C1_NeverMissingOrTruncated ==
    orig_startup # Absent =>
        /\ startup # Absent
        /\ startup = orig_startup \/ IsCompletePatch(orig_startup, startup)

\* C2: whenever the startup path differs from the original content, and in
\* every step after the backup has been taken, the backup holds the complete
\* original content.
C2_BackupHoldsOriginal ==
    (startup # orig_startup \/ pc \in AfterBackup) => backup = orig_startup

C2_Witness ==
    /\ pc = "raised"
    /\ exc = "IOError"
    /\ startup # Absent
    /\ startup # orig_startup
    /\ backup = orig_startup

\* C3: when the startup file already holds the sentinel text, gpg_startup
\* returns without SetupError and neither file is changed at any step.
C3_Idempotent ==
    (Called("gpg_startup") /\ orig_startup # Absent /\ SN \in Range(orig_startup)) =>
        /\ FilesUntouched
        /\ pc \in { "grep_gpg_agent_script", "returned", "killed" }
        /\ pc = "returned" => exc = "none"

C3_Witness ==
    /\ Called("gpg_startup")
    /\ orig_startup # Absent
    /\ SN \in Range(orig_startup)
    /\ pc = "returned"
    /\ exc = "none"
    /\ backup # Absent

\* The lines of a are lines of b, in the same order.
RECURSIVE IsSubsequence(_, _)
IsSubsequence(a, b) ==
    IF a = <<>> THEN TRUE
    ELSE IF b = <<>> THEN FALSE
    ELSE IF Head(a) = Head(b) THEN IsSubsequence(Tail(a), Tail(b))
    ELSE IsSubsequence(a, Tail(b))

\* The 1-based place of the first boilerplate text of o.
FirstAnchor(o) == Find(o, AN) + 1

\* C4: after a completed patch of a file that holds the boilerplate and no
\* sentinel, the patched file is the original with the whole snippet put in
\* at the start of the line that holds the first boilerplate text, so every
\* original line is still there, intact and in order.
C4_InsertedBeforeAnchorLine ==
    ( /\ PatchCompleted
      /\ orig_startup # Absent
      /\ AN \in Range(orig_startup)
      /\ SN \notin Range(orig_startup) ) =>
        /\ \E k \in 0 .. FirstAnchor(orig_startup) - 1 :
             /\ startup = SubSeq(orig_startup, 1, k) \o gpg_agent_script
                            \o SubSeq(orig_startup, k + 1, Len(orig_startup))
             /\ k = 0 \/ orig_startup[k] = NL
        /\ IsSubsequence(Lines(orig_startup), Lines(startup))

\* C5: with neither sentinel nor boilerplate in the file, the startup path
\* exists and keeps the original content as its beginning at every step, and
\* after a completed patch the startup file is the original followed by the
\* snippet and the backup is the original.
C5_AppendedAtEnd ==
    ( /\ Called("gpg_startup")
      /\ orig_startup # Absent
      /\ AN \notin Range(orig_startup)
      /\ SN \notin Range(orig_startup) ) =>
        /\ startup # Absent
        /\ Len(startup) >= Len(orig_startup)
        /\ SubSeq(startup, 1, Len(orig_startup)) = orig_startup
        /\ PatchCompleted =>
             /\ startup = orig_startup \o gpg_agent_script
             /\ backup = orig_startup

C5_Witness ==
    /\ PatchCompleted
    /\ orig_startup # Absent
    /\ orig_startup # <<>>
    /\ AN \notin Range(orig_startup)
    /\ SN \notin Range(orig_startup)
    /\ orig_backup # orig_startup
    /\ backup = orig_startup

SaidNo == mosrs_request \in { << "n", "o" >>, << "n" >> }

SupportOnceAndLast == Count(MsgSupport, out) = 1 /\ out[Len(out)] = MsgSupport

\* C7 as stated: however main returns, the support message is printed
\* exactly once and last.
C7_SupportOnEveryReturn ==
    pc = "returned" => SupportOnceAndLast

\* C7 amended: the return on accessdev prints the warning and no support
\* message; every other way out of main, an exception that propagates
\* included, prints the support message exactly once and last.
C7_SupportUnlessAccessdev ==
    pc \in { "returned", "raised" } =>
        IF OnAccessdev THEN ~Printed(MsgSupport) ELSE SupportOnceAndLast

C7_Witness ==
    /\ pc = "returned"
    /\ ~OnAccessdev
    /\ exc = "SetupError"
    /\ Printed(MsgRunAgain)
    /\ SupportOnceAndLast

LaterSteps == { "gpg.start_gpg_agent", "auth.check_or_update", "gpg_startup" }

\* C8: when auth.check_rose fails the run ends in NeedsAction at once: the
\* agent is not started, nothing is prompted, nothing is verified and the
\* startup file is neither read nor changed.
C8_ToolCheckFailureStops ==
    CalledWith("auth.check_rose", "AuthError") =>
        /\ NeedsAction
        /\ exc = "SetupError"
        /\ \A i \in DOMAIN calls : calls[i][1] \notin LaterSteps
        /\ prompts = 0 /\ typed = None
        /\ FilesUntouched

C8_Witness ==
    /\ CalledWith("auth.check_rose", "AuthError")
    /\ pc = "returned"
    /\ Printed(MsgRunAgain)

\* The replies no and n in any letter case.
NoReplies ==
    { << "n" >>, << "N" >>, << "n", "o" >>, << "N", "o" >>, << "n", "O" >>, << "N", "O" >> }

\* C9: once no or n has been typed (any letter case) the run can only end in
\* NeedsAction with the account-request guidance: auth.check_or_update and
\* gpg_startup are never called and the files are not changed.
C9_NoAccountStops ==
    typed \in NoReplies =>
        /\ pc \in { "account", "returned", "killed" }
        /\ pc = "returned" =>
             NeedsAction /\ exc = "SetupError" /\ Printed(MsgRequestAccount)
        /\ ~Called("auth.check_or_update")
        /\ ~Called("gpg_startup")
        /\ FilesUntouched

C9_Witness ==
    /\ typed = << "N", "o" >>
    /\ pc = "returned"
    /\ Printed(MsgRequestAccount)

\* C10: when auth.check_or_update fails the run ends in NeedsAction with the
\* check-your-credentials guidance, and as long as gpg_startup has not been
\* called the startup file and the backup are as they were.
C10_AuthFailureLeavesFiles ==
    /\ CalledWith("auth.check_or_update", "AuthError") =>
         /\ NeedsAction
         /\ exc = "SetupError"
         /\ Printed(MsgCheckCreds)
         /\ ~Called("gpg_startup")
    /\ ~Called("gpg_startup") => FilesUntouched

C10_Witness ==
    /\ CalledWith("auth.check_or_update", "AuthError")
    /\ pc = "returned"
    /\ Printed(MsgCheckCreds)
    /\ startup # Absent

\* The replies yes and y in any letter case, and the replies that take the
\* default (nothing, or blanks only).
YesReplies ==
    { << "y" >>, << "Y" >>, << "y", "e", "s" >>, << "Y", "E", "S" >>,
      << "Y", "e", "s" >>, <<>>, << " " >> }

\* The run ended in Done: the success message and no run-again guidance.
Done == pc = "returned" /\ Printed(MsgSuccess) /\ ~Printed(MsgRunAgain)

\* C11: a run that has ended ended in Done exactly when the tool check
\* succeeded, the agent started, the user answered yes, verification
\* succeeded and gpg_startup found the sentinel text in the startup file;
\* no run prints both the success message and the run-again guidance.
C11_DoneIffAllSucceeded ==
    /\ pc \in { "returned", "raised" } =>
         ( Done <=>
             /\ CalledWith("auth.check_rose", "ok")
             /\ CalledWith("gpg.start_gpg_agent", "ok")
             /\ typed \in YesReplies
             /\ CalledWith("auth.check_or_update", "ok")
             /\ Called("gpg_startup")
             /\ orig_startup # Absent
             /\ SN \in Range(orig_startup) )
    /\ ~(Printed(MsgSuccess) /\ Printed(MsgRunAgain))

C11_Witness ==
    /\ Done
    /\ typed = <<>>
    /\ SN \in Range(orig_startup)
    /\ FilesUntouched

\* C12: a run in which gpg_startup found no startup file ends in NeedsAction
\* with the helpdesk instruction and creates neither file; a run that returns
\* with the startup file changed ends in NeedsAction with the log-out-and-in
\* instruction; neither ends in Done and neither prints the other's message.
C12_PatchOrMissingNeedsAction ==
    /\ (Called("gpg_startup") /\ orig_startup = Absent) =>
         /\ NeedsAction /\ exc = "SetupError"
         /\ Printed(MsgNoStartup) /\ Printed(MsgHelpdesk)
         /\ ~Printed(MsgRelogin) /\ ~Printed(MsgSuccess)
         /\ startup = Absent
         /\ backup = orig_backup
    /\ (pc = "returned" /\ startup # orig_startup) =>
         /\ Called("gpg_startup")
         /\ NeedsAction /\ exc = "SetupError"
         /\ Printed(MsgRelogin)
         /\ ~Printed(MsgHelpdesk) /\ ~Printed(MsgSuccess)
    /\ (pc \in { "returned", "raised" } /\ startup # orig_startup) => ~Done

C12_Witness ==
    /\ pc = "returned"
    /\ AN \in Range(orig_startup)
    /\ startup # orig_startup
    /\ backup = orig_startup
    /\ Printed(MsgRelogin)
    /\ Printed(MsgRunAgain)

\* The other case of C12 is reached as well.
C12_WitnessMissing ==
    /\ Called("gpg_startup")
    /\ orig_startup = Absent
    /\ orig_backup = Absent
    /\ Printed(MsgHelpdesk)

\* The replies the prompt recognises: yes, y, no, n in any letter case, with
\* or without blanks around them, and the empty reply.
Recognised == YesReplies \cup NoReplies \cup { << " ", "n", "o", " " >> }

\* C13: a recognised reply ends the prompting and any other reply keeps the
\* run at the prompt; the loop is left with one of yes, y, no, n; after a yes
\* reply (the empty reply included) the yes branch is taken, i.e.
\* auth.check_or_update is called, and after a no reply it never is and the
\* account-request guidance is what the run prints.
C13_PromptRecognition ==
    /\ (typed # None /\ typed \in Recognised) => pc # "prompt"
    /\ (typed # None /\ typed \notin Recognised) =>
         /\ pc \in { "prompt", "killed" }
         /\ \A i \in DOMAIN calls : calls[i][1] \notin { "auth.check_or_update", "gpg_startup" }
         /\ ~Printed(MsgRequestAccount)
    /\ pc = "account" => mosrs_request \in Accepted
    /\ (typed \in YesReplies /\ pc \notin { "account", "killed" }) =>
         /\ Called("auth.check_or_update")
         /\ ~Printed(MsgRequestAccount)
    /\ (typed \in Recognised \ YesReplies) =>
         /\ ~Called("auth.check_or_update")
         /\ pc = "returned" => Printed(MsgRequestAccount)

C13_Witness ==
    /\ prompts = 2
    /\ typed = << "Y" >>
    /\ mosrs_request = << "y" >>
    /\ pc = "account"

TimesCalled(op) == Cardinality({ i \in DOMAIN calls : calls[i][1] = op })

ExternalCalls ==
    { "on_accessdev", "auth.check_rose", "gpg.start_gpg_agent",
      "auth.check_or_update", "gpg_startup" }

\* C14: within one run each external call is made at most once, whatever its
\* result, and the prompt is issued again only when the reply before it was
\* not recognised.
C14_NoRetry ==
    /\ \A op \in ExternalCalls : TimesCalled(op) <= 1
    /\ \A i \in DOMAIN calls : calls[i][1] \in ExternalCalls
    /\ (pc = "prompt" /\ prompts > 0) => typed \notin Recognised
    /\ prompts > 1 => pc \in { "prompt", "account", "returned", "killed" }

C14_Witness ==
    /\ pc = "returned"
    /\ CalledWith("auth.check_or_update", "AuthError")
    /\ prompts = 2
    /\ TimesCalled("auth.check_or_update") = 1
    /\ Len(calls) = 4

Presets == { i \in DOMAIN acc_calls : acc_calls[i].op = "gpg.preset_passphrase" }
Getpasses == { i \in DOMAIN acc_calls : acc_calls[i].op = "getpass" }

\* C15: in a run of access.main the password is asked for at most once and
\* before any preset; the presets are, in this order, AccessCollab's key and
\* nemo's key, each at most once and each with the passphrase that was typed;
\* a rejected preset is the last call of the run, which then ends with the
\* error; a run that returns has made both presets.
C15_PresetEachRealmOnce ==
    /\ Cardinality(Getpasses) <= 1
    /\ Presets # {} => (acc_calls[1].op = "getpass" /\ acc_calls[1].result = "ok")
    /\ \A i \in Presets :
         /\ acc_calls[i].passphrase = acc_calls[1].passphrase
         /\ acc_calls[i].key = IF i = 2 THEN md5hex(realm) ELSE md5hex(nemo_realm)
         /\ i \in 2 .. 3
         /\ acc_calls[i].result # "ok" => (i = Len(acc_calls) /\ acc_pc = "raised")
         /\ acc_calls[i].result = "ok" => cache[acc_calls[i].key] = acc_calls[i].passphrase
    /\ md5hex(realm) # md5hex(nemo_realm)
    /\ acc_pc = "returned" =>
         /\ Len(acc_calls) = 3
         /\ \A i \in 2 .. 3 : acc_calls[i].result = "ok"

C15_Witness ==
    /\ acc_pc = "raised"
    /\ Len(acc_calls) = 2
    /\ acc_calls[1].passphrase = << "p" >>
    /\ acc_calls[2].result = "GPGError"
    /\ cache[nemo_key] # << "p" >>

\* C16: when gpg.start_gpg_agent fails main returns at once: nothing is
\* prompted, auth.check_or_update and gpg_startup are not called, the files
\* are as they were, and neither the success message nor the run-again
\* guidance is printed.
C16_AgentFailureReturns ==
    CalledWith("gpg.start_gpg_agent", "GPGError") =>
        /\ pc = "returned"
        /\ exc = "GPGError"
        /\ prompts = 0 /\ typed = None /\ mosrs_request = None
        /\ ~Called("auth.check_or_update")
        /\ ~Called("gpg_startup")
        /\ FilesUntouched
        /\ Printed(MsgGPGError)
        /\ ~Printed(MsgSuccess)
        /\ ~Printed(MsgRunAgain)

C16_Witness ==
    /\ CalledWith("gpg.start_gpg_agent", "GPGError")
    /\ pc = "returned"
    /\ Printed(MsgGPGArg)
    /\ out[Len(out)] = MsgSupport

\* gpg_startup returned normally in this run, so the run reports Done.
TreatedAsPatched == pc = "returned" /\ Called("gpg_startup") /\ exc = "none"

\* C17 as stated: the file is treated as already patched, and the run reports
\* Done, only when it holds the complete managed block.
C17_PatchedOnlyWithWholeBlock ==
    TreatedAsPatched => ContainsBlock(orig_startup)

\* C17 amended: once gpg_startup has run to its end on an existing file, the
\* file was treated as already patched, and the run reports Done, exactly
\* when the file holds the text 'mosrs-setup gpg_agent_script'; the complete
\* managed block is one such file, a part of the block with one sentinel
\* line in it is another.
C17_PatchedIffSentinelText ==
    /\ (pc \in { "returned", "raised" } /\ Called("gpg_startup") /\ orig_startup # Absent) =>
         /\ TreatedAsPatched <=> SN \in Range(orig_startup)
         /\ Done <=> SN \in Range(orig_startup)
         /\ ContainsBlock(orig_startup) => TreatedAsPatched
    /\ TreatedAsPatched => (orig_startup # Absent /\ FilesUntouched)

\* The second run reports Done on what an interrupted append left behind.
C17_Witness ==
    /\ runs = 2
    /\ Done
    /\ TreatedAsPatched
    /\ "b" \in Range(orig_startup)
    /\ ~ContainsBlock(orig_startup)

\* How many times text holds the whole managed block.
BlockCount(text) ==
    LET block == ManagedBlock
    IN  IF text = Absent \/ Len(text) < Len(block) THEN 0
        ELSE Cardinality({ k \in 1 .. Len(text) - Len(block) + 1 :
                             SubSeq(text, k, k + Len(block) - 1) = block })

\* Everything before gpg_startup succeeded in this run, which has ended.
EndedAfterVerification ==
    /\ pc \in { "returned", "raised" }
    /\ CalledWith("auth.check_rose", "ok")
    /\ CalledWith("gpg.start_gpg_agent", "ok")
    /\ typed \in YesReplies
    /\ CalledWith("auth.check_or_update", "ok")

\* C18: a run that completes a real patch ends in NeedsAction and leaves a
\* startup file with the sentinel text and exactly one managed block; the
\* run after it changes neither file at any step, and ends in Done when its
\* tool check, agent start, yes answer and verification succeed; no file
\* ever holds the managed block twice.
C18_PatchThenDone ==
    /\ (pc = "returned" /\ startup # orig_startup) =>
         /\ NeedsAction
         /\ SN \in Range(startup)
         /\ BlockCount(startup) = 1
    /\ prev_patched =>
         /\ FilesUntouched
         /\ BlockCount(startup) = 1
         /\ EndedAfterVerification => Done
    /\ BlockCount(startup) <= 1

C18_Witness ==
    /\ prev_patched
    /\ runs = 2
    /\ EndedAfterVerification
    /\ Done
    /\ AN \in Range(backup)
    /\ BlockCount(startup) = 1

\* C19: the backup never holds the sentinel text, and whenever a step writes
\* the backup it writes it from an existing startup file that holds no
\* sentinel text: the whole of it, or a part of it when the copy fails.
C19_BackupFromUnpatchedOnly ==
    /\ [](backup # Absent => (SN \notin Range(backup) /\ BlockCount(backup) = 0))
    /\ [][ backup' # backup =>
             /\ startup # Absent
             /\ SN \notin Range(startup)
             /\ \/ backup' = startup
                \/ pc' = "raised" /\ backup' \in PartialWrites(startup) ]_vars

\* The second run backs up what a failed append of the first run left.
C19_Witness ==
    /\ runs = 2
    /\ backup # orig_backup
    /\ backup = orig_startup
    /\ "#" \in Range(backup)
    /\ ContainsBlock(startup)

====
